---- MODULE Spec2Model ----
(***************************************************************************)
(* A model of bz2file.BZ2File (src/bz2file.py): a file object giving      *)
(* transparent (de)compression over a byte endpoint.                       *)
(*                                                                         *)
(* The handle's fields are the variables mode, pos, size, buffer,          *)
(* decompressor, compressor, fp and closefp.  The endpoint the handle      *)
(* wraps is the record ep.  Every public method is one action; a method's  *)
(* body is an operator from the state before the call to the state after   *)
(* it, the value returned and the exception raised.                        *)
(*                                                                         *)
(* Spec is the handle called by one thread, any sequence of calls.         *)
(* SpecThreads is the handle shared by threads that make one call each:    *)
(* the methods that take the handle's lock run their body in one step,     *)
(* close() and the methods that take no lock in the steps that another     *)
(* thread can see.                                                         *)
(***************************************************************************)
EXTENDS Integers, Sequences, FiniteSets, TLC

\* ------------------------------------------------------------------ bounds
\* Most streams concatenated in one source.
MaxStreams == 2
\* Most plaintext bytes in one stream of a source.
MaxSegLen == 2
\* Bytes asked of the endpoint per raw read (stands for _BUFFER_SIZE, scaled).
BUFFER_SIZE == 2
\* Most plaintext bytes a write-mode handle accepts in the model.
MaxWrite == 2

\* --------------------------------------------------------------- constants
MODE_CLOSED == 0
MODE_READ == 1
MODE_READ_EOF == 2
MODE_WRITE == 3

\* Exceptions, by the class and the message the code raises them with.
NoError == "none"
ClosedError == "ValueError: I/O operation on closed file"
WhenceError == "ValueError: Invalid value for whence"
UnsupportedOperation == "io.UnsupportedOperation"
TruncatedError == "EOFError: Compressed file ended before the end-of-stream marker was reached"
StreamEndError == "EOFError: End of stream already reached"
InvalidDataError == "IOError: invalid data stream"
EndpointError == "IOError: endpoint"

\* Python's None, and a present value v: an attribute is None or Some(v).
None == <<>>
Some(v) == <<v>>
Get(o) == o[1]

\* The value of an expression e, written The({e}) where the value is to be
\* computed once and then used several times.
The(S) == CHOOSE x \in S : TRUE

Min(a, b) == IF a < b THEN a ELSE b
Max(a, b) == IF a > b THEN a ELSE b

\* ------------------------------------------------------------------- bytes
\* Plaintext bytes: the line feed and the letters.
NL == 10
Letter == 65
Byte == {NL} \cup (Letter .. Letter + 25)

\* ------------------------------------------------------------------- codec
\* The block codec (bz2.BZ2Compressor, bz2.BZ2Decompressor): a stream is a
\* header byte, one code per plaintext byte, and an end-of-stream marker.
MAGIC == 66
EOS == 23
Enc(b) == 255 - b
Dec(c) == 255 - c
Codes == {Enc(b) : b \in Byte}

RECURSIVE EncSeq(_)
EncSeq(data) ==
    IF data = <<>> THEN <<>> ELSE <<Enc(Head(data))>> \o EncSeq(Tail(data))

\* BZ2Compressor(): nothing emitted yet, nothing held back.
NewCompressor == [started |-> FALSE, pending |-> <<>>]

\* compress(data): the codec buffers; it emits the header and what it held
\* back from the call before, and holds data back until the next call.
Compress(c, data) ==
    [c   |-> [started |-> TRUE, pending |-> data],
     out |-> (IF c.started THEN <<>> ELSE <<MAGIC>>) \o EncSeq(c.pending)]

\* flush(): everything held back, then the end-of-stream marker.
Flush(c) ==
    (IF c.started THEN <<>> ELSE <<MAGIC>>) \o EncSeq(c.pending) \o <<EOS>>

\* BZ2Decompressor(): before the header, not at end of stream.
NewDecompressor == [started |-> FALSE, eof |-> FALSE, unused_data |-> <<>>]

RECURSIVE Feed(_, _, _)
Feed(d, data, out) ==
    IF data = <<>> THEN [d |-> d, out |-> out, err |-> NoError]
    ELSE LET b == Head(data)
             rest == Tail(data)
         IN  IF ~d.started
             THEN IF b = MAGIC
                  THEN Feed([d EXCEPT !.started = TRUE], rest, out)
                  ELSE [d |-> d, out |-> out, err |-> InvalidDataError]
             ELSE IF b = EOS
                  THEN [d   |-> [d EXCEPT !.eof = TRUE, !.unused_data = rest],
                        out |-> out, err |-> NoError]
                  ELSE IF b \in Codes
                       THEN Feed(d, rest, Append(out, Dec(b)))
                       ELSE [d |-> d, out |-> out, err |-> InvalidDataError]

\* decompress(data): EOFError once the end-of-stream marker was seen; else
\* the plaintext of the codes in data, with the bytes after the marker kept
\* as unused_data.
Decompress(d, data) ==
    IF d.eof THEN [d |-> d, out |-> <<>>, err |-> StreamEndError]
    ELSE Feed(d, data, <<>>)

\* ---------------------------------------------------------------- endpoint
\* The endpoint self._fp refers to: its bytes, its read/write offset, whether
\* it was closed, whether it reports itself seekable, whether it has a file
\* descriptor.  A handle and its endpoint are the record s below:
\*   s.mode .. s.closefp   the BZ2File attributes _mode, _pos, _size,
\*                         _buffer, _decompressor, _compressor, _fp, _closefp
\*   s.ep                  the endpoint
\*   s.calls               the calls made on the endpoint by the running method
\*   s.nclose, s.nflush    how often the endpoint was closed, and how often
\*                         the compressor's flush() output was handed to it
\*   s.ndrain              how often seek() ran _read_all to learn the size
\*   s.nsize               how often the running method assigned _size
\* The counters stop at 2: what matters is never, once, or more than once.
Count(n) == IF n < 2 THEN n + 1 ELSE n

Call(s, name) == [s EXCEPT !.calls = Append(@, name)]

\* self._fp.read(_BUFFER_SIZE)
FpRead(s) ==
    LET k == Min(BUFFER_SIZE, Len(s.ep.data) - s.ep.offset)
    IN  [s   |-> [Call(s, "read") EXCEPT !.ep.offset = @ + k],
         out |-> SubSeq(s.ep.data, s.ep.offset + 1, s.ep.offset + k)]

\* self._fp.write(bytes); the endpoint may fail the call.
FpWrite(s, bytes, fail) ==
    IF fail THEN [s |-> Call(s, "write"), err |-> EndpointError]
    ELSE [s   |-> [Call(s, "write") EXCEPT !.ep.data = @ \o bytes,
                                           !.ep.offset = @ + Len(bytes)],
          err |-> NoError]

\* self._fp.seek(0, 0)
FpSeek(s) == [Call(s, "seek") EXCEPT !.ep.offset = 0]

\* self._fp.close(); the endpoint may report an error, and is closed anyway.
FpClose(s, fail) ==
    [s   |-> [Call(s, "close") EXCEPT !.ep.closed = TRUE, !.nclose = Count(@)],
     err |-> IF fail THEN EndpointError ELSE NoError]

\* ------------------------------------------------------------------ results
\* What a method gives back: the state after it, the bytes or the number it
\* returns, the exception it raises.
Ret(s, bytes, n) == [s |-> s, ret |-> bytes, retn |-> n, err |-> NoError]
Raise(s, e) == [s |-> s, ret |-> <<>>, retn |-> -1, err |-> e]
Bool(b) == IF b THEN 1 ELSE 0

\* ------------------------------------------------------------- constructor
\* BZ2File.__init__(filename, mode): filename a name (the handle opens and
\* owns the endpoint) or a file object (borrowed).
Construct(reading, owns, ep) ==
    [mode         |-> IF reading THEN MODE_READ ELSE MODE_WRITE,
     pos          |-> 0,
     size         |-> -1,
     buffer       |-> None,
     decompressor |-> IF reading THEN Some(NewDecompressor) ELSE None,
     compressor   |-> IF reading THEN None ELSE Some(NewCompressor),
     fp           |-> Some("endpoint"),
     closefp      |-> owns,
     ep           |-> ep,
     calls        |-> <<>>,
     nclose       |-> 0,
     nflush       |-> 0,
     ndrain       |-> 0,
     nsize        |-> 0]

\* -------------------------------------------------------------- mode checks
closed(s) == s.mode = MODE_CLOSED

check_not_closed(s) == IF closed(s) THEN ClosedError ELSE NoError

readable(s) ==
    IF closed(s) THEN Raise(s, ClosedError)
    ELSE Ret(s, <<>>, Bool(s.mode \in {MODE_READ, MODE_READ_EOF}))

writable(s) ==
    IF closed(s) THEN Raise(s, ClosedError)
    ELSE Ret(s, <<>>, Bool(s.mode = MODE_WRITE))

check_can_read(s) ==
    LET r == readable(s)
    IN  IF r.err # NoError THEN r.err
        ELSE IF r.retn = 0 THEN UnsupportedOperation ELSE NoError

check_can_write(s) ==
    LET r == writable(s)
    IN  IF r.err # NoError THEN r.err
        ELSE IF r.retn = 0 THEN UnsupportedOperation ELSE NoError

\* _check_can_seek without the test of the mode.
check_can_seek_any_mode(s) ==
    LET r == readable(s)
    IN  IF r.err # NoError THEN Raise(s, r.err)
        ELSE IF ~s.ep.seekable THEN Raise(Call(s, "seekable"), UnsupportedOperation)
        ELSE Ret(Call(s, "seekable"), <<>>, -1)

\* _check_can_seek asks the endpoint whether it is seekable.
check_can_seek(s) ==
    LET r == readable(s)
    IN  IF r.err # NoError THEN Raise(s, r.err)
        ELSE IF r.retn = 0 THEN Raise(s, UnsupportedOperation)
        ELSE IF ~s.ep.seekable THEN Raise(Call(s, "seekable"), UnsupportedOperation)
        ELSE Ret(Call(s, "seekable"), <<>>, -1)

\* ------------------------------------------------------------ read engine
Truthy(buf) == buf # None /\ Get(buf) # <<>>

\* fill_decompress without the new decompressor at an end of stream.
fill_decompress_one_stream(s, rawblock) ==
    LET r == Decompress(Get(s.decompressor), rawblock)
    IN  [s   |-> [s EXCEPT !.decompressor = Some(r.d),
                           !.buffer = IF r.err = NoError
                                      THEN Some(r.out) ELSE s.buffer],
         err |-> r.err]

\* The last lines of _fill_buffer: decompress rawblock into _buffer, with a
\* new decompressor if the one at hand is at its end of stream.
fill_decompress(s, rawblock) ==
    LET r == Decompress(Get(s.decompressor), rawblock)
        r2 == Decompress(NewDecompressor, rawblock)
    IN  IF r.err = StreamEndError
        THEN [s   |-> [s EXCEPT !.decompressor = Some(r2.d),
                                !.buffer = IF r2.err = NoError
                                           THEN Some(r2.out) ELSE s.buffer],
              err |-> r2.err]
        ELSE [s   |-> [s EXCEPT !.decompressor = Some(r.d),
                                !.buffer = IF r.err = NoError
                                           THEN Some(r.out) ELSE s.buffer],
              err |-> r.err]

\* fill_end taking every end of the input for the end of the file.
fill_end_lenient(s) ==
    [s   |-> [s EXCEPT !.mode = MODE_READ_EOF, !.size = s.pos],
     ok  |-> FALSE, err |-> NoError]

\* fill_end raising the truncation error once and leaving the end of file
\* behind it.
fill_end_once(s) ==
    IF Decompress(Get(s.decompressor), <<>>).err = StreamEndError
    THEN [s   |-> [s EXCEPT !.mode = MODE_READ_EOF, !.size = s.pos,
                            !.nsize = Count(@)],
          ok  |-> FALSE, err |-> NoError]
    ELSE [s   |-> [s EXCEPT !.mode = MODE_READ_EOF],
          ok  |-> FALSE, err |-> TruncatedError]

\* The "if not rawblock" branch of _fill_buffer: no input is left, which is
\* the end of the file at the end of a stream, or a truncated file.
fill_end(s) ==
    IF Decompress(Get(s.decompressor), <<>>).err = StreamEndError
    THEN [s   |-> [s EXCEPT !.mode = MODE_READ_EOF, !.size = s.pos,
                            !.nsize = Count(@)],
          ok  |-> FALSE, err |-> NoError]
    ELSE [s |-> s, ok |-> FALSE, err |-> TruncatedError]

\* _fill_buffer: [s, ok, err]; ok is the value returned.
RECURSIVE fill_buffer(_)
fill_buffer(s) ==
    IF Truthy(s.buffer) THEN [s |-> s, ok |-> TRUE, err |-> NoError]
    ELSE
    LET unused == Get(s.decompressor).unused_data
    IN  The({
        IF x.rawblock = <<>>
        THEN fill_end(x.s)
        ELSE The({
             IF r.err = NoError
             THEN fill_buffer(r.s)
             ELSE [s |-> r.s, ok |-> FALSE, err |-> r.err] :
             r \in {fill_decompress(x.s, x.rawblock)}}) :
        x \in {IF unused # <<>>
               THEN [s |-> [s EXCEPT !.decompressor = Some(NewDecompressor)],
                     rawblock |-> unused]
               ELSE [s |-> FpRead(s).s, rawblock |-> FpRead(s).out]}})

\* A turn of the loop that goes on when nothing is left to read, as if an
\* empty block were a block of data.
fill_turn_on(s) ==
    IF Truthy(s.buffer)
    THEN [s |-> s, done |-> TRUE, ok |-> TRUE, err |-> NoError]
    ELSE
    LET unused == Get(s.decompressor).unused_data
    IN  The({
        The({IF r.err = NoError
             THEN [s |-> r.s, done |-> FALSE, ok |-> FALSE, err |-> NoError]
             ELSE [s |-> r.s, done |-> TRUE, ok |-> FALSE, err |-> r.err] :
             r \in {fill_decompress(x.s, x.rawblock)}}) :
        x \in {IF unused # <<>>
               THEN [s |-> [s EXCEPT !.decompressor = Some(NewDecompressor)],
                     rawblock |-> unused]
               ELSE [s |-> FpRead(s).s, rawblock |-> FpRead(s).out]}})

\* One turn of the "while True" loop of _fill_buffer: [s, done, ok, err];
\* done when the turn returns or raises, ok the value returned.
fill_turn(s) ==
    IF Truthy(s.buffer)
    THEN [s |-> s, done |-> TRUE, ok |-> TRUE, err |-> NoError]
    ELSE
    LET unused == Get(s.decompressor).unused_data
    IN  The({
        IF x.rawblock = <<>>
        THEN The({[s |-> e.s, done |-> TRUE, ok |-> e.ok, err |-> e.err] :
                  e \in {fill_end(x.s)}})
        ELSE The({
             IF r.err = NoError
             THEN [s |-> r.s, done |-> FALSE, ok |-> FALSE, err |-> NoError]
             ELSE [s |-> r.s, done |-> TRUE, ok |-> FALSE, err |-> r.err] :
             r \in {fill_decompress(x.s, x.rawblock)}}) :
        x \in {IF unused # <<>>
               THEN [s |-> [s EXCEPT !.decompressor = Some(NewDecompressor)],
                     rawblock |-> unused]
               ELSE [s |-> FpRead(s).s, rawblock |-> FpRead(s).out]}})

\* The loop of _fill_buffer run for at most `turns` turns:
\* [s, done, ok, err, turns], turns being the turns it took.
RECURSIVE fill_loop(_, _, _)
fill_loop(s, turns, taken) ==
    IF turns = 0
    THEN [s |-> s, done |-> FALSE, ok |-> FALSE, err |-> NoError,
          turns |-> taken]
    ELSE The({
         IF t.done
         THEN [s |-> t.s, done |-> TRUE, ok |-> t.ok, err |-> t.err,
               turns |-> taken + 1]
         ELSE fill_loop(t.s, turns - 1, taken + 1) :
         t \in {fill_turn(s)}})

\* _read_all(return_data), blocks being the data gathered so far.
RECURSIVE read_all(_, _, _)
read_all(s, return_data, blocks) ==
    The({
        IF f.err # NoError THEN Raise(f.s, f.err)
        ELSE IF f.ok
        THEN read_all([f.s EXCEPT !.pos = @ + Len(Get(f.s.buffer)),
                                  !.buffer = None],
                      return_data,
                      IF return_data THEN blocks \o Get(f.s.buffer) ELSE blocks)
        ELSE Ret(f.s, blocks, -1) :
        f \in {fill_buffer(s)}})

\* read_block_take without the slicing: the whole buffer is taken.
read_block_take_whole(s, n) ==
    [s    |-> [s EXCEPT !.buffer = None, !.pos = @ + Len(Get(s.buffer))],
     data |-> Get(s.buffer)]

\* One round of the loop of _read_block: take up to n bytes off _buffer.
read_block_take(s, n) ==
    LET buf == Get(s.buffer)
        data == IF n < Len(buf) THEN SubSeq(buf, 1, n) ELSE buf
        rest == IF n < Len(buf) THEN Some(SubSeq(buf, n + 1, Len(buf))) ELSE None
    IN  [s |-> [s EXCEPT !.buffer = rest, !.pos = @ + Len(data)], data |-> data]

\* _read_block(n, return_data), blocks being the data gathered so far.
RECURSIVE read_block(_, _, _, _)
read_block(s, n, return_data, blocks) ==
    IF ~(n > 0) THEN Ret(s, blocks, -1)
    ELSE The({
        IF f.err # NoError THEN Raise(f.s, f.err)
        ELSE IF f.ok
        THEN The({
             read_block(x.s, n - Len(x.data), return_data,
                        IF return_data THEN blocks \o x.data ELSE blocks) :
             x \in {read_block_take(f.s, n)}})
        ELSE Ret(f.s, blocks, -1) :
        f \in {fill_buffer(s)}})

\* A peek() that takes what it returns out of the buffer.
peek_taking(s) ==
    LET c == check_can_read(s)
    IN  IF c # NoError THEN Raise(s, c)
        ELSE IF s.mode = MODE_READ_EOF THEN Ret(s, <<>>, -1)
        ELSE The({IF f.err # NoError THEN Raise(f.s, f.err)
                  ELSE IF ~f.ok THEN Ret(f.s, <<>>, -1)
                  ELSE Ret([f.s EXCEPT !.buffer = None,
                                       !.pos = @ + Len(Get(f.s.buffer))],
                           Get(f.s.buffer), -1) :
                  f \in {fill_buffer(s)}})

\* peek(n)
peek(s) ==
    LET c == check_can_read(s)
    IN  IF c # NoError THEN Raise(s, c)
        ELSE IF s.mode = MODE_READ_EOF THEN Ret(s, <<>>, -1)
        ELSE The({IF f.err # NoError THEN Raise(f.s, f.err)
                  ELSE IF ~f.ok THEN Ret(f.s, <<>>, -1)
                  ELSE Ret(f.s, Get(f.s.buffer), -1) :
                  f \in {fill_buffer(s)}})

\* read(size)
read(s, size) ==
    LET c == check_can_read(s)
    IN  IF c # NoError THEN Raise(s, c)
        ELSE IF s.mode = MODE_READ_EOF \/ size = 0 THEN Ret(s, <<>>, -1)
        ELSE IF size < 0 THEN read_all(s, TRUE, <<>>)
        ELSE read_block(s, size, TRUE, <<>>)

\* read1(size)
read1_take(s, size) ==
    LET buf == Get(s.buffer)
        part == 0 < size /\ size < Len(buf)
        data == IF part THEN SubSeq(buf, 1, size) ELSE buf
        rest == IF part THEN Some(SubSeq(buf, size + 1, Len(buf))) ELSE None
    IN  Ret([s EXCEPT !.buffer = rest, !.pos = @ + Len(data)], data, -1)

read1(s, size) ==
    LET c == check_can_read(s)
    IN  IF c # NoError THEN Raise(s, c)
        ELSE IF size = 0 \/ s.mode = MODE_READ_EOF THEN Ret(s, <<>>, -1)
        ELSE The({IF f.err # NoError THEN Raise(f.s, f.err)
                  ELSE IF ~f.ok THEN Ret(f.s, <<>>, -1)
                  ELSE read1_take(f.s, size) :
                  f \in {fill_buffer(s)}})

\* --------------------------------------------------------------- write path
\* write that tells the compressor but drops what it gives back.
write_dropped(s, data, fail) ==
    LET c == check_can_write(s)
        z == Compress(Get(s.compressor), data)
        w == FpWrite([s EXCEPT !.compressor = Some(z.c)], <<>>, fail)
    IN  IF c # NoError THEN Raise(s, c)
        ELSE IF w.err # NoError THEN Raise(w.s, w.err)
        ELSE Ret([w.s EXCEPT !.pos = @ + Len(data)], <<>>, Len(data))

\* write(data); the endpoint may fail the write.
write(s, data, fail) ==
    LET c == check_can_write(s)
        z == Compress(Get(s.compressor), data)
        w == FpWrite([s EXCEPT !.compressor = Some(z.c)], z.out, fail)
    IN  IF c # NoError THEN Raise(s, c)
        ELSE IF w.err # NoError THEN Raise(w.s, w.err)
        ELSE Ret([w.s EXCEPT !.pos = @ + Len(data)], <<>>, Len(data))

\* --------------------------------------------------------------------- close
\* close_try writing the flush output a second time.
close_try_again(s, wfail) ==
    LET w == FpWrite([s EXCEPT !.nflush = Count(@)],
                     Flush(Get(s.compressor)), wfail)
        w2 == FpWrite([w.s EXCEPT !.nflush = Count(@)],
                      Flush(Get(s.compressor)), FALSE)
    IN  IF s.mode \in {MODE_READ, MODE_READ_EOF}
        THEN [s |-> [s EXCEPT !.decompressor = None], err |-> NoError]
        ELSE IF s.mode = MODE_WRITE
        THEN IF w.err # NoError THEN w
             ELSE [s |-> [w2.s EXCEPT !.compressor = None], err |-> NoError]
        ELSE [s |-> s, err |-> NoError]

\* The try block of close(): drop the decompressor, or write the flush output.
close_try(s, wfail) ==
    LET w == FpWrite([s EXCEPT !.nflush = Count(@)],
                     Flush(Get(s.compressor)), wfail)
    IN  IF s.mode \in {MODE_READ, MODE_READ_EOF}
        THEN [s |-> [s EXCEPT !.decompressor = None], err |-> NoError]
        ELSE IF s.mode = MODE_WRITE
        THEN IF w.err # NoError THEN w
             ELSE [s |-> [w.s EXCEPT !.compressor = None], err |-> NoError]
        ELSE [s |-> s, err |-> NoError]

\* The inner try of close(): close an owned endpoint.
close_fp(s, cfail) ==
    IF s.closefp THEN FpClose(s, cfail) ELSE [s |-> s, err |-> NoError]

\* close_finally that forgets the mode.
close_finally_open(s) ==
    [s EXCEPT !.fp = None, !.buffer = None]

\* The innermost finally of close().
close_finally(s) ==
    [s EXCEPT !.fp = None, !.closefp = FALSE, !.mode = MODE_CLOSED,
              !.buffer = None]

\* close without its try ... finally: a failed flush ends the call.
close_no_finally(s, wfail, cfail) ==
    IF s.mode = MODE_CLOSED THEN Ret(s, <<>>, -1)
    ELSE LET t == close_try(s, wfail)
             c == close_fp(t.s, cfail)
             f == close_finally(c.s)
         IN  IF t.err # NoError THEN Raise(t.s, t.err)
             ELSE IF c.err # NoError THEN Raise(f, c.err)
             ELSE Ret(f, <<>>, -1)

\* close(); wfail and cfail: the endpoint fails the write, the close.
close(s, wfail, cfail) ==
    IF s.mode = MODE_CLOSED THEN Ret(s, <<>>, -1)
    ELSE LET t == close_try(s, wfail)
             c == close_fp(t.s, cfail)
             f == close_finally(c.s)
         IN  IF c.err # NoError THEN Raise(f, c.err)
             ELSE IF t.err # NoError THEN Raise(f, t.err)
             ELSE Ret(f, <<>>, -1)

\* ---------------------------------------------------------------------- seek
\* _rewind that keeps the decompressor and the buffer.
rewind_stale(s) ==
    [FpSeek(s) EXCEPT !.mode = MODE_READ, !.pos = 0]

\* _rewind that forgets the size.
rewind_forget(s) ==
    [FpSeek(s) EXCEPT !.mode = MODE_READ, !.pos = 0, !.size = -1,
                      !.decompressor = Some(NewDecompressor), !.buffer = None]

\* _rewind()
rewind(s) ==
    [FpSeek(s) EXCEPT !.mode = MODE_READ, !.pos = 0,
                      !.decompressor = Some(NewDecompressor), !.buffer = None]

\* seek_absolute that forgets the size it found.
seek_absolute_again(s, offset, whence) ==
    IF whence = 0 THEN Ret(s, <<>>, offset)
    ELSE IF whence = 1 THEN Ret(s, <<>>, s.pos + offset)
    ELSE IF whence = 2
    THEN The({IF d.err # NoError THEN d
              ELSE Ret(d.s, <<>>, d.s.size + offset) :
              d \in {read_all([s EXCEPT !.ndrain = Count(@)], FALSE, <<>>)}})
    ELSE Raise(s, WhenceError)

\* The whence branch of seek(): the offset as an absolute position, after the
\* pass over the stream that whence = 2 needs while the size is unknown.
seek_absolute(s, offset, whence) ==
    IF whence = 0 THEN Ret(s, <<>>, offset)
    ELSE IF whence = 1 THEN Ret(s, <<>>, s.pos + offset)
    ELSE IF whence = 2
    THEN IF s.size < 0
         THEN The({IF d.err # NoError THEN d
                   ELSE Ret(d.s, <<>>, d.s.size + offset) :
                   d \in {read_all([s EXCEPT !.ndrain = Count(@)], FALSE, <<>>)}})
         ELSE Ret(s, <<>>, s.size + offset)
    ELSE Raise(s, WhenceError)

\* seek_skip taking the target for the position once the end is reached.
seek_skip_beyond(s, offset) ==
    LET back == offset < s.pos
        s1 == IF back THEN rewind(s) ELSE s
        n == IF back THEN offset ELSE offset - s.pos
    IN  IF s1.mode # MODE_READ_EOF
        THEN The({IF r.err # NoError THEN r
                  ELSE IF r.s.mode = MODE_READ_EOF
                  THEN Ret([r.s EXCEPT !.pos = Max(offset, 0)], <<>>,
                           Max(offset, 0))
                  ELSE Ret(r.s, <<>>, r.s.pos) :
                  r \in {read_block(s1, n, FALSE, <<>>)}})
        ELSE Ret(s1, <<>>, s1.pos)

\* The rest of seek(): rewind or not, then read and discard.
seek_skip(s, offset) ==
    LET back == offset < s.pos
        s1 == IF back THEN rewind(s) ELSE s
        n == IF back THEN offset ELSE offset - s.pos
    IN  IF s1.mode # MODE_READ_EOF
        THEN The({IF r.err # NoError THEN r ELSE Ret(r.s, <<>>, r.s.pos) :
                  r \in {read_block(s1, n, FALSE, <<>>)}})
        ELSE Ret(s1, <<>>, s1.pos)

\* seek(offset, whence)
seek(s, offset, whence) ==
    LET c == check_can_seek(s)
    IN  IF c.err # NoError THEN c
        ELSE The({IF a.err # NoError THEN a ELSE seek_skip(a.s, a.retn) :
                  a \in {seek_absolute(c.s, offset, whence)}})

\* tell()
tell(s) ==
    LET c == check_not_closed(s)
    IN  IF c # NoError THEN Raise(s, c) ELSE Ret(s, <<>>, s.pos)

\* fileno(): the endpoint's descriptor; an endpoint without one refuses.
fileno(s) ==
    LET c == check_not_closed(s)
    IN  IF c # NoError THEN Raise(s, c)
        ELSE IF s.ep.fd < 0 THEN Raise(Call(s, "fileno"), UnsupportedOperation)
        ELSE Ret(Call(s, "fileno"), <<>>, s.ep.fd)

\* seekable()
seekable(s) ==
    LET r == readable(s)
    IN  IF r.err # NoError THEN r
        ELSE IF r.retn = 0 THEN Ret(s, <<>>, Bool(FALSE))
        ELSE Ret(Call(s, "seekable"), <<>>, Bool(s.ep.seekable))

\* ------------------------------------------------- io.BufferedIOBase methods
\* readinto(b), b of length n: read(n), copied into b.
readinto(s, n) ==
    The({IF r.err # NoError THEN r ELSE Ret(r.s, r.ret, Len(r.ret)) :
         r \in {read(s, n)}})

\* How much readline reads next: up to the first line feed of what peek
\* showed, and no more than size.
RECURSIVE upto_newline(_, _)
upto_newline(buf, n) ==
    IF n >= Len(buf) THEN n
    ELSE IF buf[n + 1] = NL THEN n + 1 ELSE upto_newline(buf, n + 1)

nreadahead(readahead, size) ==
    IF readahead = <<>> THEN 1
    ELSE IF size >= 0 THEN Min(upto_newline(readahead, 0), size)
    ELSE upto_newline(readahead, 0)

\* readline(size): peek, read that much, until a line feed, size bytes or
\* nothing more to read.
RECURSIVE readline_loop(_, _, _)
readline_loop(s, size, res) ==
    IF ~(size < 0 \/ Len(res) < size) THEN Ret(s, res, -1)
    ELSE The({
        IF p.err # NoError THEN p
        ELSE The({
             IF b.err # NoError THEN b
             ELSE IF b.ret = <<>> THEN Ret(b.s, res, -1)
             ELSE IF b.ret[Len(b.ret)] = NL THEN Ret(b.s, res \o b.ret, -1)
             ELSE readline_loop(b.s, size, res \o b.ret) :
             b \in {read(p.s, nreadahead(p.ret, size))}}) :
        p \in {peek(s)}})

readline(s, size) == readline_loop(s, size, <<>>)

\* readlines(hint): lines until one is empty or, with hint > 0, their total
\* length exceeds hint.  Returned here as the lines joined (ret) and their
\* number (retn).
RECURSIVE readlines_loop(_, _, _, _)
readlines_loop(s, hint, lines, n) ==
    The({
        IF l.err # NoError THEN l
        ELSE IF l.ret = <<>> THEN Ret(l.s, lines, n)
        ELSE IF hint > 0 /\ Len(lines \o l.ret) > hint
        THEN Ret(l.s, lines \o l.ret, n + 1)
        ELSE readlines_loop(l.s, hint, lines \o l.ret, n + 1) :
        l \in {readline(s, -1)}})

readlines(s, hint) ==
    LET c == check_not_closed(s)
    IN  IF c # NoError THEN Raise(s, c) ELSE readlines_loop(s, hint, <<>>, 0)

\* writelines(seq): write each; the endpoint may fail the first write.
RECURSIVE writelines_loop(_, _, _)
writelines_loop(s, seq, fail) ==
    IF seq = <<>> THEN Ret(s, <<>>, -1)
    ELSE The({
        IF w.err # NoError THEN w
        ELSE writelines_loop(w.s, Tail(seq), FALSE) :
        w \in {write(s, Head(seq), fail)}})

writelines(s, seq, fail) ==
    LET c == check_not_closed(s)
    IN  IF c # NoError THEN Raise(s, c) ELSE writelines_loop(s, seq, fail)

\* ------------------------------------------------------------------- sources
\* The plaintext byte at offset i - 1 of a source: a line feed at some
\* offsets, elsewhere a letter that differs from offset to offset.
Plain(i) == IF i % 3 = 2 \/ i % 4 = 3 THEN NL ELSE Letter + i

PlainSeq(from, n) == [i \in 1..n |-> Plain(from + i)]

\* One complete stream holding the plaintext p.
Segment(p) == <<MAGIC>> \o EncSeq(p) \o <<EOS>>

RECURSIVE Sum(_)
Sum(lens) == IF lens = <<>> THEN 0 ELSE Head(lens) + Sum(Tail(lens))

\* The lengths of a source's streams: up to MaxStreams streams of up to
\* MaxSegLen bytes of plaintext each, MaxStreams + MaxSegLen bytes in all.
Shapes ==
    {lens \in UNION {[1..k -> 0..MaxSegLen] : k \in 1..MaxStreams} :
        Sum(lens) <= MaxStreams + MaxSegLen}

\* The streams of shape lens, one after the other.
RECURSIVE Streams(_, _)
Streams(lens, from) ==
    IF lens = <<>> THEN <<>>
    ELSE Segment(PlainSeq(from, Head(lens)))
         \o Streams(Tail(lens), from + Head(lens))

\* A source: its bytes, the plaintext that can be decoded from them, whether
\* it is cut off inside a stream, and the lengths of its streams.  keep is the
\* number of bytes kept of the last stream.
Source(lens, keep) ==
    LET k == Len(lens)
        last == lens[k]
        whole == SubSeq(lens, 1, k - 1)
        full == keep = last + 2
    IN  [data  |-> SubSeq(Streams(lens, 0), 1, Sum(whole) + 2 * (k - 1) + keep),
         plain |-> PlainSeq(0, Sum(whole) + Min(last, Max(keep - 1, 0))),
         cut   |-> ~full,
         lens  |-> lens]

\* Every source: whole, or cut off inside its last stream (an empty source
\* counts as cut off; a source cut at a stream boundary is a whole one).
Sources ==
    {Source(lens, keep) : <<lens, keep>> \in
        {x \in Shapes \X (0..MaxSegLen + 2) :
            /\ x[2] <= x[1][Len(x[1])] + 2
            /\ (x[2] = 0 => Len(x[1]) = 1)}}

\* ---------------------------------------------------------------- variables
VARIABLES
    \* the handle: _mode, _pos, _size, _buffer, _decompressor, _compressor,
    \* _fp, _closefp
    mode, pos, size, buffer, decompressor, compressor, fp, closefp,
    \* the endpoint, and the counters (see above)
    ep, nclose, nflush, ndrain,
    \* the exception the last call raised
    err,
    \* the source read (see Source), or what the sink held when opened
    src,
    \* what was written so far
    written,
    \* whether the handle owns its endpoint, whether the endpoint ever failed
    \* a call, which handle this is (1: the first, 2: the one that reopened
    \* what the first wrote)
    owner, faulted, hid,
    \* the bytes returned by the reads since the handle was opened, and
    \* whether a seek came in between
    got, seeked,
    \* the threads calling the handle: the handle's _lock (the thread that
    \* holds it, how many times), where each thread is in its call, and the
    \* handle as it was constructed
    lock, th, first

handle == <<mode, pos, size, buffer, decompressor, compressor, fp, closefp,
            ep, nclose, nflush, ndrain>>
threads == <<lock, th, first>>
vars == <<handle, err, src, written, owner, faulted, hid, got, seeked,
          threads>>

\* The handle and its endpoint as one record, at the start of a call.
Self ==
    [mode |-> mode, pos |-> pos, size |-> size, buffer |-> buffer,
     decompressor |-> decompressor, compressor |-> compressor, fp |-> fp,
     closefp |-> closefp, ep |-> ep, calls |-> <<>>, nclose |-> nclose,
     nflush |-> nflush, ndrain |-> ndrain, nsize |-> 0]

\* The handle and its endpoint after a call.
Set(s) ==
    /\ mode' = s.mode /\ pos' = s.pos /\ size' = s.size
    /\ buffer' = s.buffer /\ decompressor' = s.decompressor
    /\ compressor' = s.compressor /\ fp' = s.fp /\ closefp' = s.closefp
    /\ ep' = s.ep /\ nclose' = s.nclose /\ nflush' = s.nflush
    /\ ndrain' = s.ndrain

\* The handle and its endpoint as constructed.
Start(s) ==
    /\ mode = s.mode /\ pos = s.pos /\ size = s.size
    /\ buffer = s.buffer /\ decompressor = s.decompressor
    /\ compressor = s.compressor /\ fp = s.fp /\ closefp = s.closefp
    /\ ep = s.ep /\ nclose = s.nclose /\ nflush = s.nflush
    /\ ndrain = s.ndrain

\* A call gave r, no other thread calling.
Do(r) == Set(r.s) /\ err' = r.err /\ UNCHANGED threads

Endpoint(data, offset, canseek, fd) ==
    [data |-> data, offset |-> offset, closed |-> FALSE,
     seekable |-> canseek, fd |-> fd]

\* An endpoint opened by name is a file: seekable, with a descriptor.  One
\* handed in is an in-memory stream, seekable or not, without a descriptor.
Endpoints(data, offset) ==
    {Endpoint(data, offset, TRUE, 3), Endpoint(data, offset, TRUE, -1),
     Endpoint(data, offset, FALSE, -1)}

Owns(e) == e.fd >= 0

\* The threads that call the handle.
NThreads == 2
Threads == 1..NThreads

\* A call: the method and its arguments (n: the size, the offset or the
\* number of bytes to write).
Op(name, n, whence) == [name |-> name, n |-> n, whence |-> whence]

\* What a call gave its caller.
Result(r) == [ret |-> r.ret, retn |-> r.retn, err |-> r.err]
Returned == [ret |-> <<>>, retn |-> -1, err |-> NoError]

\* A thread before its call; cerr is the exception close() holds back
\* while its finally clauses run.
Idle == [pc |-> "idle", op |-> Op("none", 0, 0), res |-> Returned,
         cerr |-> NoError]

\* self._lock = RLock(): held by no thread.
Free == [owner |-> 0, depth |-> 0]

InitObserved ==
    /\ err = NoError
    /\ got = <<>> /\ seeked = FALSE /\ faulted = FALSE /\ hid = 1
    /\ lock = Free /\ th = [t \in Threads |-> Idle] /\ first = Self

\* BZ2File(source, "r")
InitRead ==
    \E so \in Sources : \E e \in Endpoints(so.data, 0) :
        /\ Start(Construct(TRUE, Owns(e), e))
        /\ src = so /\ written = <<>> /\ owner = Owns(e)
        /\ InitObserved

\* BZ2File(sink, "w"), or BZ2File(sink, "a") on a sink that holds a stream.
InitWrite ==
    \E so \in {Source(<<0>>, 0), Source(<<1>>, 3)} :
    \E e \in Endpoints(so.data, Len(so.data)) :
        /\ e.seekable
        /\ Start(Construct(FALSE, Owns(e), e))
        /\ src = so /\ written = <<>> /\ owner = Owns(e)
        /\ InitObserved

Init == InitRead \/ InitWrite

\* ------------------------------------------------------------------- actions
\* The arguments the calls are made with.
MaxSize == MaxSegLen + 1
Sizes == -1..MaxSize
SrcLen == Len(src.plain)
\* Offsets from below the start to beyond the end of what the source holds:
\* from the start (whence 0) and from the end (whence 2) every target from one
\* below the start to one beyond the end, from the position (whence 1) one
\* step back, none or one forward; 3 is no whence.
Offsets == (0 - SrcLen - 1)..(SrcLen + 1)
Whences == 0..3
Seeks ==
    {x \in Offsets \X Whences :
        /\ x[2] = 0 => x[1] >= -1
        /\ x[2] = 1 => x[1] \in -1..1
        /\ x[2] = 2 => x[1] <= 1
        /\ x[2] = 3 => x[1] = 0}
\* What a write-mode handle is given to write.
Datas == {<<>>, <<Letter>>, <<NL>>, <<Letter + 1, NL>>}
Lines == {<<>>, <<<<Letter>>>>, <<<<NL>>, <<Letter + 1>>>>, <<<<>>, <<Letter, NL>>>>}

RECURSIVE Join(_)
Join(seq) == IF seq = <<>> THEN <<>> ELSE Head(seq) \o Join(Tail(seq))

Reading == mode \in {MODE_READ, MODE_READ_EOF}

\* What a call that reads adds to got; what any other call leaves alone.
Gathers(r) ==
    /\ got' = IF r.err = NoError /\ ~seeked THEN got \o r.ret ELSE got
    /\ UNCHANGED <<src, written, owner, faulted, hid, seeked>>

Observes == UNCHANGED <<src, written, owner, faulted, hid, got, seeked>>

\* What a call that writes data adds to written.
Writes(r, data) ==
    /\ written' = IF r.err = NoError /\ mode = MODE_WRITE
                  THEN written \o data ELSE written
    /\ faulted' = (faulted \/ r.err = EndpointError)
    /\ UNCHANGED <<src, owner, hid, got, seeked>>

Read ==
    \E n \in Sizes : LET r == read(Self, n) IN
        Do(r) /\ Gathers(r)

Read1 ==
    \E n \in Sizes : LET r == read1(Self, n) IN
        Do(r) /\ Gathers(r)

Peek == Do(peek(Self)) /\ Observes

ReadInto ==
    \E n \in 0..MaxSize : LET r == readinto(Self, n) IN
        Do(r) /\ Gathers(r)

ReadLine ==
    \E n \in Sizes : LET r == readline(Self, n) IN
        Do(r) /\ Gathers(r)

ReadLines ==
    \E n \in Sizes : LET r == readlines(Self, n) IN
        Do(r) /\ Gathers(r)

\* The endpoint fails at most one write before the close.
Write ==
    \E data \in Datas : \E fail \in BOOLEAN :
        /\ mode = MODE_WRITE => pos + Len(data) <= MaxWrite
        /\ fail => ~faulted
        /\ LET r == write(Self, data, fail) IN
               Do(r) /\ Writes(r, data)

WriteLines ==
    \E seq \in Lines : \E fail \in BOOLEAN :
        /\ mode = MODE_WRITE => pos + Len(Join(seq)) <= MaxWrite
        /\ fail => ~faulted
        /\ LET r == writelines(Self, seq, fail) IN
               Do(r) /\ Writes(r, Join(seq))

Seek ==
    \E x \in Seeks :
        /\ Do(seek(Self, x[1], x[2]))
        /\ seeked' = (seeked \/ Reading)
        /\ got' = IF Reading THEN <<>> ELSE got
        /\ UNCHANGED <<src, written, owner, faulted, hid>>

Tell == Do(tell(Self)) /\ Observes

Fileno == Do(fileno(Self)) /\ Observes

Readable == Do(readable(Self)) /\ Observes

Writable == Do(writable(Self)) /\ Observes

Seekable == Do(seekable(Self)) /\ Observes

Close ==
    \E wfail, cfail \in BOOLEAN : LET r == close(Self, wfail, cfail) IN
        /\ Do(r)
        /\ faulted' = (faulted \/ r.err = EndpointError)
        /\ UNCHANGED <<src, written, owner, hid, got, seeked>>

\* BZ2File(sink, "r") on what the first handle wrote, once that handle is
\* closed and if the endpoint failed no call: write, close, then reopen.
Reopen ==
    /\ hid = 1 /\ mode = MODE_CLOSED /\ nflush = 1 /\ ~faulted
    /\ \E e \in Endpoints(ep.data, 0) :
           /\ Set(Construct(TRUE, Owns(e), e))
           /\ owner' = Owns(e)
           /\ first' = Construct(TRUE, Owns(e), e)
    /\ err' = NoError
    /\ src' = [data  |-> ep.data,
               plain |-> src.plain \o written,
               cut   |-> FALSE,
               lens  |-> (IF src.cut THEN <<>> ELSE src.lens) \o <<Len(written)>>]
    /\ hid' = 2 /\ got' = <<>> /\ seeked' = FALSE
    /\ UNCHANGED <<written, faulted, lock, th>>

Next ==
    \/ Read \/ Read1 \/ Peek \/ ReadInto \/ ReadLine \/ ReadLines
    \/ Write \/ WriteLines \/ Seek \/ Tell \/ Fileno
    \/ Readable \/ Writable \/ Seekable \/ Close \/ Reopen

Spec == Init /\ [][Next]_vars

\* ------------------------------------------------------------------ threads
\* Threads calling one handle.  A thread runs between two of its steps what
\* the interpreter runs without giving up control to another thread: a step
\* reads or writes the handle's attributes that a method outside the lock can
\* see changing (_mode, _fp), or it is the body of a method that holds the
\* lock, which no method that takes the lock can interleave with.

AttributeError == "AttributeError: 'NoneType' object has no attribute"

\* The methods that take the lock around a body of their own, those that
\* take it around a method of io.BufferedIOBase, which calls read, peek or
\* write, and those that do not take it.
Locked == {"read", "read1", "peek", "write", "seek", "tell"}
Composite == {"readinto", "readline", "readlines", "writelines"}
Unlocked == {"fileno", "readable", "writable", "seekable"}

\* The calls the threads make.
Menu ==
    {Op("read", 1, 0), Op("read", -1, 0), Op("peek", 0, 0),
     Op("write", 1, 0), Op("seek", 0, 0), Op("tell", 0, 0),
     Op("close", 0, 0),
     Op("fileno", 0, 0), Op("readable", 0, 0), Op("writable", 0, 0),
     Op("seekable", 0, 0),
     Op("readinto", 1, 0), Op("readline", -1, 0), Op("readlines", -1, 0),
     Op("writelines", 1, 0)}

\* The call o made on the handle s, no other thread calling.
Apply(o, s) ==
    CASE o.name = "read" -> read(s, o.n)
      [] o.name = "read1" -> read1(s, o.n)
      [] o.name = "peek" -> peek(s)
      [] o.name = "write" -> write(s, [i \in 1..o.n |-> Letter], FALSE)
      [] o.name = "seek" -> seek(s, o.n, o.whence)
      [] o.name = "tell" -> tell(s)
      [] o.name = "close" -> close(s, FALSE, FALSE)
      [] o.name = "fileno" -> fileno(s)
      [] o.name = "readable" -> readable(s)
      [] o.name = "writable" -> writable(s)
      [] o.name = "seekable" -> seekable(s)
      [] o.name = "readinto" -> readinto(s, o.n)
      [] o.name = "readline" -> readline(s, o.n)
      [] o.name = "readlines" -> readlines(s, o.n)
      [] o.name = "writelines" ->
             writelines(s, <<[i \in 1..o.n |-> Letter]>>, FALSE)

\* A lock no thread can take twice.
CanAcquirePlain(l, t) == l.owner = 0

\* RLock.acquire: the lock is free, or held by the thread that asks.
CanAcquire(l, t) == l.owner \in {0, t}

Acquired(l, t) == [owner |-> t, depth |-> l.depth + 1]

\* RLock.release
Released(l) == IF l.depth = 1 THEN Free ELSE [l EXCEPT !.depth = @ - 1]

\* The first two lines of close()'s last finally clause, and the other two.
close_finally_fp(s) == [s EXCEPT !.fp = None, !.closefp = FALSE]
close_finally_mode(s) == [s EXCEPT !.mode = MODE_CLOSED, !.buffer = None]

\* self._fp.fileno(), _fp as it is read now.
fp_fileno(s) ==
    IF s.fp = None THEN Raise(s, AttributeError)
    ELSE IF s.ep.closed THEN Raise(s, ClosedError)
    ELSE IF s.ep.fd < 0 THEN Raise(s, UnsupportedOperation)
    ELSE Ret(s, <<>>, s.ep.fd)

\* self._fp.seekable(), _fp as it is read now.
fp_seekable(s) ==
    IF s.fp = None THEN Raise(s, AttributeError)
    ELSE IF s.ep.closed THEN Raise(s, ClosedError)
    ELSE Ret(s, <<>>, Bool(s.ep.seekable))

\* Thread t goes on to pc.
Goto(t, pc) == th' = [th EXCEPT ![t].pc = pc]

\* Thread t's call is over, with result r.
Done(t, r) == th' = [th EXCEPT ![t].pc = "done", ![t].res = r]

Quiet == UNCHANGED <<handle, err, src, written, owner, faulted, hid, got,
                     seeked, first>>

\* A thread calls a method.
Invoke(t) ==
    /\ th[t].pc = "idle"
    /\ \E o \in Menu :
           th' = [th EXCEPT ![t].op = o,
                            ![t].pc = IF o.name \in Unlocked
                                      THEN "check" ELSE "lock"]
    /\ UNCHANGED lock /\ Quiet

\* with self._lock: the thread waits until it can take the lock.
Acquire(t) ==
    /\ th[t].pc = "lock"
    /\ CanAcquire(lock, t)
    /\ lock' = Acquired(lock, t)
    /\ Goto(t, IF th[t].op.name = "close" THEN "close_try"
               ELSE IF th[t].op.name \in Composite THEN "mixin"
               ELSE "body")
    /\ Quiet

\* The method of io.BufferedIOBase calls read, peek or write, which takes the
\* lock the thread holds.
Reenter(t) ==
    /\ th[t].pc = "mixin"
    /\ CanAcquire(lock, t)
    /\ lock' = Acquired(lock, t)
    /\ Goto(t, "body")
    /\ Quiet

\* The body of a method that holds the lock, and the release that ends it.
Body(t) ==
    /\ th[t].pc = "body"
    /\ LET r == Apply(th[t].op, Self) IN
           /\ Set(r.s) /\ err' = r.err
           /\ IF th[t].op.name \in Composite
              THEN th' = [th EXCEPT ![t].pc = "unlock", ![t].res = Result(r)]
              ELSE Done(t, Result(r))
    /\ lock' = Released(lock)
    /\ UNCHANGED <<src, written, owner, faulted, hid, got, seeked, first>>

\* The end of the with block of a method of Composite.
Release(t) ==
    /\ th[t].pc = "unlock"
    /\ lock' = Released(lock)
    /\ Goto(t, "done")
    /\ Quiet

\* close() up to its last finally clause: nothing on a closed handle, else
\* the try block and the close of an endpoint that is owned.
CloseTry(t) ==
    /\ th[t].pc = "close_try"
    /\ IF mode = MODE_CLOSED
       THEN /\ Done(t, Returned) /\ lock' = Released(lock)
            /\ UNCHANGED <<handle, err>>
       ELSE LET a == close_try(Self, FALSE)
                c == close_fp(a.s, FALSE)
            IN  /\ Set(c.s)
                /\ th' = [th EXCEPT ![t].pc = "close_fp",
                                    ![t].cerr = IF c.err # NoError
                                                THEN c.err ELSE a.err]
                /\ UNCHANGED <<lock, err>>
    /\ UNCHANGED <<src, written, owner, faulted, hid, got, seeked, first>>

\* self._fp = None; self._closefp = False
CloseFp(t) ==
    /\ th[t].pc = "close_fp"
    /\ Set(close_finally_fp(Self))
    /\ Goto(t, "close_mode")
    /\ UNCHANGED <<lock, err, src, written, owner, faulted, hid, got, seeked,
                   first>>

\* self._mode = _MODE_CLOSED; self._buffer = None, and the end of close().
CloseMode(t) ==
    /\ th[t].pc = "close_mode"
    /\ Set(close_finally_mode(Self))
    /\ err' = th[t].cerr
    /\ Done(t, [Returned EXCEPT !.err = th[t].cerr])
    /\ lock' = Released(lock)
    /\ UNCHANGED <<src, written, owner, faulted, hid, got, seeked, first>>

\* _check_not_closed() in a method that does not take the lock.
CheckNotClosed(t) ==
    /\ th[t].pc = "check"
    /\ IF closed(Self)
       THEN Done(t, Result(Raise(Self, ClosedError)))
       ELSE Goto(t, IF th[t].op.name = "fileno" THEN "fileno_fp" ELSE "mode")
    /\ UNCHANGED lock /\ Quiet

\* The return of readable() and of writable(), which reads _mode again; in
\* seekable() the test of what readable() returned.
ReadMode(t) ==
    /\ th[t].pc = "mode"
    /\ LET r == mode \in {MODE_READ, MODE_READ_EOF} IN
       IF th[t].op.name = "readable"
       THEN Done(t, Result(Ret(Self, <<>>, Bool(r))))
       ELSE IF th[t].op.name = "writable"
       THEN Done(t, Result(Ret(Self, <<>>, Bool(mode = MODE_WRITE))))
       ELSE IF r THEN Goto(t, "hasattr")
       ELSE Done(t, Result(Ret(Self, <<>>, Bool(FALSE))))
    /\ UNCHANGED lock /\ Quiet

\* return self._fp.fileno()
FilenoFp(t) ==
    /\ th[t].pc = "fileno_fp"
    /\ Done(t, Result(fp_fileno(Self)))
    /\ UNCHANGED lock /\ Quiet

\* hasattr(self._fp, "seekable"); None has neither seekable nor seek.
HasAttr(t) ==
    /\ th[t].pc = "hasattr"
    /\ IF fp = None
       THEN Done(t, Result(Ret(Self, <<>>, Bool(FALSE))))
       ELSE Goto(t, "fp_seekable")
    /\ UNCHANGED lock /\ Quiet

\* return self._fp.seekable()
FpSeekable(t) ==
    /\ th[t].pc = "fp_seekable"
    /\ Done(t, Result(fp_seekable(Self)))
    /\ UNCHANGED lock /\ Quiet

\* A step of thread t.
Step(t) ==
    \/ Invoke(t) \/ Acquire(t) \/ Reenter(t) \/ Body(t) \/ Release(t)
    \/ CloseTry(t) \/ CloseFp(t) \/ CloseMode(t)
    \/ CheckNotClosed(t) \/ ReadMode(t) \/ FilenoFp(t)
    \/ HasAttr(t) \/ FpSeekable(t)

NextThreads == \E t \in Threads : Step(t)

\* The handles the threads share: over a source that is whole, one that is
\* cut off, and over a sink.
InitThreads ==
    /\ Init
    /\ src \in {Source(<<1>>, 3), Source(<<1>>, 2), Source(<<0>>, 0)}

\* Every thread that can take a step takes one in the end: the interpreter
\* switches between the threads that can run.
SpecThreads ==
    InitThreads /\ [][NextThreads]_vars /\ \A t \in Threads : WF_vars(Step(t))

\* -------------------------------------------------------------------- claims
\* The properties below are state predicates: where they speak of a call, they
\* apply its operator to the handle as it is in the state (Self) and look at
\* what the call gives, for every argument drawn from the sets above.

PlainLen == Len(src.plain)
Rest(T) == SubSeq(src.plain, T + 1, PlainLen)

\* A handle reading a source that is whole.
Intact == Reading /\ ~src.cut

\* The second handle, as constructed over what the first one wrote.
Fresh == hid = 2 /\ Self = Construct(TRUE, owner, [ep EXCEPT !.offset = 0])

\* C1 (round trip): what a handle wrote, in any number of write and
\* writelines calls, and flushed in a close that succeeded, a new handle over
\* the same bytes reads back whole with read(-1), after what the sink held
\* already, and without an error.
C1_RoundTrip ==
    Fresh =>
        \A r \in {read(Self, -1)} :
            /\ r.err = NoError
            /\ r.ret = src.plain
            /\ Len(src.plain) >= Len(written)
            /\ SubSeq(src.plain, Len(src.plain) - Len(written) + 1,
                      Len(src.plain)) = written
            /\ r.s.mode = MODE_READ_EOF

C1_Witness ==
    /\ Fresh
    /\ Len(written) = MaxWrite
    /\ src.lens = <<1, MaxWrite>>
    /\ read(Self, -1).ret = src.plain
    /\ src.plain = SubSeq(src.plain, 1, 1) \o written

\* C2 (streams laid end to end): on a whole source of one or more streams,
\* the reads made so far (read, read1, readinto, readline, readlines, in any
\* mix and with no seek in between) returned the plaintext up to the position,
\* peek shows data that comes next and shows some unless the position is the
\* end, the handle is at its end of file only at the end of the last stream,
\* with the position and the size the whole length, and read(-1) returns all
\* the rest and ends there.
C2_Concatenation ==
    (Intact /\ ~seeked) =>
        /\ got = SubSeq(src.plain, 1, pos)
        /\ pos <= PlainLen
        /\ mode = MODE_READ_EOF => pos = PlainLen /\ size = PlainLen
        /\ \A p \in {peek(Self)} :
               /\ p.err = NoError
               /\ p.ret = SubSeq(Rest(pos), 1, Len(p.ret))
               /\ pos < PlainLen => p.ret # <<>>
               /\ p.s.pos = pos
        /\ \A r \in {read(Self, -1)} :
               /\ r.err = NoError
               /\ got \o r.ret = src.plain
               /\ r.s.mode = MODE_READ_EOF
               /\ r.s.pos = PlainLen
               /\ r.s.size = PlainLen

\* Two streams that hold data, the second starting where a chunk of input
\* ends, read to the end.
C2_Witness ==
    /\ Intact /\ ~seeked /\ hid = 1
    /\ Len(src.lens) = 2 /\ src.lens[1] > 0 /\ src.lens[2] > 0
    /\ (src.lens[1] + 2) % BUFFER_SIZE = 0
    /\ mode = MODE_READ_EOF /\ pos = PlainLen /\ got = src.plain

\* C3 (seek): on a whole source of length L behind a seekable endpoint, in
\* every state of a reading handle and for every T in 0 .. L, seek(T, 0)
\* returns T, tell() then returns T, and read(-1) then returns the plaintext
\* from T to the end.
C3_SeekConsistency ==
    (Intact /\ ep.seekable) =>
        \A T \in 0 .. PlainLen :
            \A r \in {seek(Self, T, 0)} :
                /\ r.err = NoError
                /\ r.retn = T
                /\ tell(r.s).err = NoError
                /\ tell(r.s).retn = T
                /\ \A d \in {read(r.s, -1)} :
                       d.err = NoError /\ d.ret = Rest(T)

\* At the end of file of two streams, position 1 of the first stream is a
\* backward target.
C3_Witness ==
    /\ Intact /\ ep.seekable
    /\ Len(src.lens) = 2 /\ src.lens[1] = 2 /\ src.lens[2] > 0
    /\ mode = MODE_READ_EOF
    /\ seek(Self, 1, 0).retn = 1
    /\ read(seek(Self, 1, 0).s, -1).ret = Rest(1)

Refused(r, e) == r = Raise(Self, e)

\* The calls C5 lists, but for readline, refused on a closed handle.
ClosedRefuses ==
    /\ \A n \in Sizes : Refused(read(Self, n), ClosedError)
    /\ \A n \in Sizes : Refused(read1(Self, n), ClosedError)
    /\ \A n \in 0 .. MaxSize : Refused(readinto(Self, n), ClosedError)
    /\ \A n \in Sizes : Refused(readlines(Self, n), ClosedError)
    /\ Refused(peek(Self), ClosedError)
    /\ \A data \in Datas : \A fail \in BOOLEAN :
           Refused(write(Self, data, fail), ClosedError)
    /\ \A seq \in Lines : \A fail \in BOOLEAN :
           Refused(writelines(Self, seq, fail), ClosedError)
    /\ \A x \in Seeks : Refused(seek(Self, x[1], x[2]), ClosedError)
    /\ Refused(tell(Self), ClosedError)
    /\ Refused(fileno(Self), ClosedError)

\* C5 (closed is final): on a closed handle each of read, read1, readinto,
\* readline, readlines, peek, write, writelines, seek, tell and fileno, with
\* any argument, raises the closed-file error, calls the endpoint for nothing
\* and leaves the handle closed and as it was.
C5_ClosedIsTerminal ==
    mode = MODE_CLOSED =>
        /\ ClosedRefuses
        /\ \A n \in Sizes : Refused(readline(Self, n), ClosedError)

\* What the code does of C5: as C5_ClosedIsTerminal, but readline(0) returns
\* no bytes and raises nothing; it still calls the endpoint for nothing and
\* leaves the handle as it was.
C5_ClosedButEmptyReadline ==
    mode = MODE_CLOSED =>
        /\ ClosedRefuses
        /\ \A n \in Sizes \ {0} : Refused(readline(Self, n), ClosedError)
        /\ readline(Self, 0) = Ret(Self, <<>>, -1)

\* C6 (close, again): for one handle the endpoint is closed at most once,
\* once if the handle owns it and never if it does not, and the flush output
\* is written at most once; close() on a closed handle raises nothing, calls
\* the endpoint for nothing and changes nothing, also when the close that
\* closed the handle raised an error.
C6_IdempotentClose ==
    /\ nclose <= 1 /\ nflush <= 1
    /\ mode # MODE_CLOSED => nclose = 0 /\ nflush = 0
    /\ mode = MODE_CLOSED =>
           /\ nclose = IF owner THEN 1 ELSE 0
           /\ ep.closed = owner
           /\ \A wfail, cfail \in BOOLEAN :
                  close(Self, wfail, cfail) = Ret(Self, <<>>, -1)
    /\ mode # MODE_CLOSED =>
           \A wfail, cfail \in BOOLEAN :
               \A r \in {close(Self, wfail, cfail)} :
                   /\ r.s.mode = MODE_CLOSED
                   /\ r.s.nclose = IF owner THEN 1 ELSE 0
                   /\ r.s.nflush = IF mode = MODE_WRITE THEN 1 ELSE 0
                   /\ close(r.s, wfail, cfail).s.nclose = r.s.nclose
                   /\ close(r.s, wfail, cfail).s.nflush = r.s.nflush
                   /\ close(r.s, wfail, cfail).err = NoError

\* A handle that owns its endpoint, closed by a close whose flush the
\* endpoint failed, is closed again.
C6_Witness ==
    /\ mode = MODE_CLOSED /\ owner /\ err = EndpointError
    /\ compressor # None /\ nclose = 1 /\ nflush = 1
    /\ close(Self, TRUE, TRUE) = Ret(Self, <<>>, -1)

\* C7 (mode): on a handle open for writing read, read1, peek and seek raise
\* UnsupportedOperation, and on a handle open for reading write does; the
\* call is refused before the endpoint is called, and the position, the
\* mode and the buffer are what they were.
C7_ModeEnforcement ==
    /\ mode = MODE_WRITE =>
           /\ \A x \in Seeks :
                  Refused(seek(Self, x[1], x[2]), UnsupportedOperation)
           /\ \A n \in Sizes : Refused(read(Self, n), UnsupportedOperation)
           /\ \A n \in Sizes : Refused(read1(Self, n), UnsupportedOperation)
           /\ Refused(peek(Self), UnsupportedOperation)
    /\ Reading =>
           \A data \in Datas : \A fail \in BOOLEAN :
               Refused(write(Self, data, fail), UnsupportedOperation)

\* A handle that wrote data, asked to seek.
C7_Witness ==
    /\ mode = MODE_WRITE /\ pos > 0 /\ Get(compressor).pending # <<>>
    /\ seek(Self, 0, 0).err = UnsupportedOperation
    /\ seek(Self, 0, 0).s.calls = <<>>

\* C8 (truncation): on a source cut off before the end-of-stream marker of
\* its last stream, read(-1), and read(n) for n more than the bytes that can
\* be decoded before the cut, raise the truncated-stream error; the handle is
\* never at its end of file and never has a size, before such a read or
\* after it.  A read(n) of no more than what is left before the cut returns
\* n bytes.
C8_TruncationDetected ==
    (Reading /\ src.cut) =>
        /\ mode = MODE_READ /\ size = -1
        /\ pos <= PlainLen
        /\ \A r \in {read(Self, -1)} :
               /\ r.err = TruncatedError
               /\ r.s.mode = MODE_READ /\ r.s.size = -1
        /\ \A n \in 1 .. MaxSize + 1 :
               \A r \in {read(Self, n)} :
                   /\ r.s.mode = MODE_READ /\ r.s.size = -1
                   /\ n > PlainLen - pos => r.err = TruncatedError
                   /\ n <= PlainLen - pos =>
                          r.err = NoError /\ r.ret = SubSeq(Rest(pos), 1, n)

\* A source of two streams, cut off inside the second after some of its
\* data: all that can be decoded was read, and the read that went on failed.
C8_Witness ==
    /\ Reading /\ src.cut
    /\ Len(src.lens) = 2 /\ PlainLen > src.lens[1]
    /\ pos = PlainLen /\ err = TruncatedError
    /\ read(Self, 1).err = TruncatedError

\* The error C9 names.
InvalidArgument == "ValueError: invalid argument"

\* C9 (offsets out of range): on a handle open for reading, seek(offset, 0)
\* with offset < 0 and seek(offset, 2) with offset > 0 raise an
\* invalid-argument error before the endpoint is read or moved, and the
\* position, the mode, the size and the buffer are what they were.
C9_InvalidSeekRejected ==
    (Reading /\ ep.seekable) =>
        \A x \in Seeks :
            ((x[2] = 0 /\ x[1] < 0) \/ (x[2] = 2 /\ x[1] > 0)) =>
                \A r \in {seek(Self, x[1], x[2])} :
                    /\ r.err = InvalidArgument
                    /\ r.s.pos = pos /\ r.s.mode = mode
                    /\ r.s.size = size /\ r.s.buffer = buffer
                    /\ r.s.ep = ep
                    /\ \A i \in 1 .. Len(r.s.calls) :
                           r.s.calls[i] = "seekable"

\* What the code does of C9, on a whole source: seek(offset, 0) with
\* offset < 0 rewinds the endpoint and returns 0, and seek(offset, 2) with
\* offset > 0 reads to the end of file and returns the size; neither raises
\* an error.
C9_OffsetsClamped ==
    (Intact /\ ep.seekable) =>
        \A x \in Seeks :
            /\ (x[2] = 0 /\ x[1] < 0) =>
                   \A r \in {seek(Self, x[1], 0)} :
                       /\ r.err = NoError /\ r.retn = 0
                       /\ r.s.pos = 0 /\ r.s.mode = MODE_READ
                       /\ r.s.calls = <<"seekable", "seek">>
                       /\ read(r.s, -1).ret = src.plain
            /\ (x[2] = 2 /\ x[1] > 0) =>
                   \A r \in {seek(Self, x[1], 2)} :
                       /\ r.err = NoError /\ r.retn = PlainLen
                       /\ r.s.mode = MODE_READ_EOF

\* C10 (close after a failed flush): when the endpoint fails the write of the
\* flush output, close() raises that error, and the handle is closed all the
\* same: its mode is closed, it holds no endpoint and no buffer, and an
\* endpoint it owns was closed; whether the close of the endpoint fails too
\* changes none of this.
C10_CloseAfterFlushFailure ==
    mode = MODE_WRITE =>
        \A cfail \in BOOLEAN :
            \A r \in {close(Self, TRUE, cfail)} :
                /\ r.err = EndpointError
                /\ r.s.mode = MODE_CLOSED
                /\ r.s.fp = None /\ r.s.buffer = None
                /\ ~r.s.closefp
                /\ r.s.nflush = 1
                /\ owner => r.s.ep.closed /\ r.s.nclose = 1
                /\ owner => r.s.calls = <<"write", "close">>
                /\ ~owner => r.s.calls = <<"write">> /\ ~r.s.ep.closed
                /\ r.s.ep.data = ep.data

\* A handle that wrote data and owns its endpoint, after the close whose
\* flush failed: the compressor is still there, since the flush did not end.
C10_Witness ==
    /\ mode = MODE_CLOSED /\ err = EndpointError /\ compressor # None
    /\ owner /\ ep.closed /\ nclose = 1 /\ nflush = 1 /\ fp = None
    /\ pos > 0

\* C13 (a closed handle holds nothing): whenever the mode is closed, after a
\* close of a reading or of a writing handle and after a close that raised an
\* error of the flush or of the endpoint's close, the handle has no buffer,
\* no decompressor, no compressor and no endpoint.
C13_ClosedHoldsNothing ==
    mode = MODE_CLOSED =>
        /\ buffer = None
        /\ decompressor = None
        /\ compressor = None
        /\ fp = None

\* What the code does of C13: a closed handle has no buffer, no decompressor
\* and no endpoint; it has a compressor exactly when it was open for writing
\* and the endpoint failed the write of the flush output.
C13_ClosedButFailedFlush ==
    /\ mode = MODE_CLOSED =>
           /\ buffer = None /\ decompressor = None /\ fp = None /\ ~closefp
           /\ compressor # None => nflush = 1 /\ faulted
    /\ mode = MODE_WRITE =>
           \A wfail, cfail \in BOOLEAN :
               (close(Self, wfail, cfail).s.compressor # None) <=> wfail

\* What each call a reading handle serves gives in the state, with every
\* argument: read, read1, readinto, readline, readlines, peek, seek, tell.
ReadCalls ==
    {read(Self, n) : n \in Sizes} \cup {read1(Self, n) : n \in Sizes}
    \cup {readinto(Self, n) : n \in 0 .. MaxSize}
    \cup {readline(Self, n) : n \in Sizes}
    \cup {readlines(Self, n) : n \in Sizes}
    \cup {peek(Self), tell(Self)}
    \cup {seek(Self, x[1], x[2]) : x \in Seeks}

\* C14 (the size is set once): once the size is known, no call assigns it
\* again or changes it, and a call that finds it assigns it once.
C14_SizeSetOnce ==
    Reading =>
        \A r \in ReadCalls :
            /\ r.s.nsize <= 1
            /\ size >= 0 => r.s.nsize = 0 /\ r.s.size = size

\* C14 as the code has it: the size is unknown until a call first reads to the
\* confirmed end of a whole source, is the length of the plaintext from then
\* on, and no later read, rewind, seek or close changes its value; a call
\* that reaches the end of file again after a rewind assigns the size again,
\* to the value it has.  On a source that is cut off it stays unknown.
C14_SizeNeverChanges ==
    /\ size >= 0 => size = PlainLen /\ ~src.cut
    /\ Reading =>
           \A r \in ReadCalls :
               /\ r.s.nsize <= 1
               /\ size >= 0 => r.s.size = size
               /\ r.s.nsize = 1 => r.s.size = PlainLen /\ ~src.cut
               /\ r.s.mode = MODE_READ_EOF => r.s.size = r.s.pos
               /\ (size < 0 /\ r.s.size >= 0) => r.s.nsize = 1
    /\ \A wfail, cfail \in BOOLEAN : close(Self, wfail, cfail).s.size = size

\* The size is known, the handle was rewound, and read(-1) reaches the end
\* of file again: the size is assigned again, to the same value.
C14_Witness ==
    /\ Intact /\ size = PlainLen /\ PlainLen > 0
    /\ mode = MODE_READ /\ pos = 0 /\ seeked
    /\ read(Self, -1).s.nsize = 1
    /\ read(Self, -1).s.size = size

\* C15 (reads of exact size): on a whole source of plaintext length L, a
\* reading handle at position p gives for read(n), n > 0, the
\* min(n, L - p) bytes of plaintext from p on and moves the position by as
\* many, so fewer than n bytes only at the end of the data; read(0) returns
\* nothing, calls the endpoint for nothing and changes nothing; and at the
\* end of file every read returns nothing and changes nothing.
C15_ExactSizeReads ==
    Intact =>
        /\ 0 <= pos /\ pos <= PlainLen
        /\ \A n \in 1 .. MaxSize + 1 :
               \A r \in {read(Self, n)} :
                   /\ r.err = NoError
                   /\ Len(r.ret) = Min(n, PlainLen - pos)
                   /\ r.ret = SubSeq(src.plain, pos + 1, pos + Len(r.ret))
                   /\ r.s.pos = pos + Len(r.ret)
                   /\ Len(r.ret) < n => r.s.pos = PlainLen
        /\ read(Self, 0) = Ret(Self, <<>>, -1)
        /\ mode = MODE_READ_EOF =>
               \A n \in Sizes : read(Self, n) = Ret(Self, <<>>, -1)

\* A read(n) that is served from two streams: the position is inside the
\* first and n reaches into the second.
C15_Witness ==
    /\ Intact /\ Len(src.lens) = 2
    /\ 0 < pos /\ pos < src.lens[1] /\ src.lens[2] > 0
    /\ PlainLen - pos >= 2
    /\ Len(read(Self, PlainLen - pos).ret) = PlainLen - pos
    /\ Len(read(Self, MaxSize + 1).ret) = PlainLen - pos

\* A handle without the counters and the calls of the running method: what
\* the next calls can depend on.
Fields(s) ==
    [s EXCEPT !.calls = <<>>, !.nclose = 0, !.nflush = 0, !.ndrain = 0,
              !.nsize = 0]

\* The handle after a peek(), less the total size: peek() may find it, and
\* it is read by seek() alone, which finds it when it is not known.
Peeked(s) == [Fields(peek(s).s) EXCEPT !.size = -1]

\* Two handles know the same total size, or one of them does not know it and
\* the other knows the length of what the source holds.
SizesAgree(a, b) ==
    \/ a.size = b.size
    \/ a.size < 0 /\ b.size = PlainLen /\ ~src.cut
    \/ b.size < 0 /\ a.size = PlainLen /\ ~src.cut

\* Two results that return the same, and leave handles that a peek() makes
\* the same.
SameAfterPeek(a, b) ==
    /\ a.ret = b.ret /\ a.retn = b.retn /\ a.err = b.err
    /\ Peeked(a.s) = Peeked(b.s)
    /\ SizesAgree(peek(a.s).s, peek(b.s).s)

CommonPrefix(a, b) ==
    SubSeq(a, 1, Min(Len(a), Len(b))) = SubSeq(b, 1, Min(Len(a), Len(b)))

\* C16 (peek does not consume): on a reading handle peek() leaves the
\* position as it is; on a whole source it returns data unless the position
\* is the end, and on one cut off it returns data or raises the truncation
\* error; what it returns begins what the next read returns; and each of
\* read, read1, readinto, readline, readlines, seek, tell and peek returns
\* after a peek() what it returns without, and leaves a handle that differs
\* at most by what a peek() does to it -- so a peek() put anywhere in a
\* sequence of calls changes nothing they return.  Nor does it matter to an
\* end-relative seek() whether the total size was already found.
C16_PeekDoesNotConsume ==
    Reading =>
        \A p \in {peek(Self)} :
            /\ p.s.pos = pos
            /\ p.err \in {NoError, TruncatedError}
            /\ p.err = TruncatedError => src.cut /\ pos = PlainLen
            /\ (p.err = NoError /\ p.ret = <<>>) =>
                   ~src.cut /\ pos = PlainLen /\ p.s.mode = MODE_READ_EOF
            /\ p.err = NoError =>
                   /\ p.ret = SubSeq(Rest(pos), 1, Len(p.ret))
                   /\ \A n \in Sizes \ {0} :
                          /\ read(p.s, n).err = NoError =>
                                 CommonPrefix(p.ret, read(p.s, n).ret)
                          /\ CommonPrefix(p.ret, read1(p.s, n).ret)
                   /\ ~src.cut => CommonPrefix(p.ret, read(Self, -1).ret)
                   /\ ~src.cut => Len(read(p.s, -1).ret) >= Len(p.ret)
            /\ Peeked(p.s) = Peeked(Self)
            /\ SizesAgree(p.s, Self)
            /\ \A n \in Sizes :
                   /\ SameAfterPeek(read(Self, n), read(Fields(p.s), n))
                   /\ SameAfterPeek(read1(Self, n), read1(Fields(p.s), n))
                   /\ SameAfterPeek(readline(Self, n), readline(Fields(p.s), n))
                   /\ SameAfterPeek(readlines(Self, n),
                                    readlines(Fields(p.s), n))
            /\ \A n \in 0 .. MaxSize :
                   SameAfterPeek(readinto(Self, n), readinto(Fields(p.s), n))
            /\ \A x \in Seeks :
                   SameAfterPeek(seek(Self, x[1], x[2]),
                                 seek(Fields(p.s), x[1], x[2]))
            /\ SameAfterPeek(tell(Self), tell(Fields(p.s)))
            /\ Intact =>
                   \A k \in {[Self EXCEPT !.size = PlainLen]} :
                       \A x \in {y \in Seeks : y[2] = 2} :
                           SameAfterPeek(seek(Self, x[1], x[2]),
                                         seek(k, x[1], x[2]))

\* A peek() that has to read the endpoint more than once, chunks decoding to
\* nothing: at the end of a stream with an empty stream before the data.
C16_Witness ==
    /\ Intact /\ buffer = None /\ pos < PlainLen
    /\ Len(peek(Self).s.calls) >= 2
    /\ peek(Self).ret # <<>>
    /\ peek(Self).s.pos = pos
    /\ pos > 0

\* ---------------------------------------------------------------------
\* C17

\* What the loop of _fill_buffer has left to take in: the bytes of the
\* endpoint not yet read and the bytes the decompressor left unused.
Left(s) ==
    Len(s.ep.data) - s.ep.offset + Len(Get(s.decompressor).unused_data)

\* Turns enough for the loop: one for each byte left, one to find the end
\* and one to return the buffer.
FillTurns(s) == Left(s) + 2

ReadsOf(calls) == Cardinality({i \in DOMAIN calls : calls[i] = "read"})

\* C17 (termination of the fill loop): on a handle in the reading mode a turn
\* of the loop of _fill_buffer that does not end it takes in at least one
\* byte of what is left, so the loop ends within FillTurns turns; it ends
\* returning true with a buffer that is not empty, returning false in the
\* mode of the end of file, or raising the truncation error; it is what
\* _fill_buffer does; and read, read1, readinto, readline, readlines, peek,
\* seek and tell read the endpoint a bounded number of times.
C17_FillTerminates ==
    mode = MODE_READ =>
        /\ \A t \in {fill_turn(Self)} :
               /\ ~t.done => Left(t.s) < Left(Self) /\ t.s.mode = MODE_READ
               /\ Left(t.s) <= Left(Self)
        /\ \A f \in {fill_loop(Self, FillTurns(Self), 0)} :
               /\ f.done
               /\ f.turns <= FillTurns(Self)
               /\ \/ f.ok /\ f.err = NoError /\ Truthy(f.s.buffer)
                     /\ f.s.mode = MODE_READ
                  \/ ~f.ok /\ f.err = NoError /\ ~Truthy(f.s.buffer)
                     /\ f.s.mode = MODE_READ_EOF /\ Left(f.s) = 0
                  \/ ~f.ok /\ f.err = TruncatedError /\ Left(f.s) = 0
                     /\ f.s.mode = MODE_READ
               /\ [s |-> f.s, ok |-> f.ok, err |-> f.err] = fill_buffer(Self)
        /\ \A r \in ReadCalls :
               ReadsOf(r.s.calls) <= 2 * (Len(ep.data) + 2)

\* A fill that takes three turns or more, a chunk decoding to nothing on the
\* way, and ends with data.
C17_Witness ==
    /\ mode = MODE_READ /\ ~Truthy(buffer) /\ seeked
    /\ fill_loop(Self, FillTurns(Self), 0).turns >= 3
    /\ fill_loop(Self, FillTurns(Self), 0).ok
    /\ ~fill_turn(Self).done /\ ~Truthy(fill_turn(Self).s.buffer)

\* ---------------------------------------------------------------------
\* C18

\* A handle at the end of a source that is cut off: in the reading mode,
\* everything that can be decoded taken out of the buffer, nothing left to
\* take in.
Stuck(s) ==
    /\ src.cut /\ s.mode = MODE_READ /\ s.pos = PlainLen
    /\ ~Truthy(s.buffer) /\ Left(s) = 0

\* A call failed as it fails on a handle that is stuck, leaving it as it was.
FailsAgain(s, r) ==
    r.err = TruncatedError /\ Fields(r.s) = Fields(s) /\ Stuck(r.s)

\* C18 (consistent failure after truncation): a read-side call that raises
\* the truncation error leaves the handle in the reading mode, at the position
\* of all the plaintext taken out of the buffer, with nothing left to take
\* in; and on such a handle every read, read1, readinto, readline, readlines
\* and peek that needs data raises the truncation error again and leaves the
\* handle as it is, so it goes on failing until a seek or a close.
C18_FailsAgainAfterTruncation ==
    Reading =>
        /\ err = TruncatedError => Stuck(Self)
        /\ \A r \in ReadCalls :
               r.err = TruncatedError =>
                   /\ Stuck(r.s) /\ r.s.pos >= pos
                   /\ r.ret = <<>> /\ r.s.size = -1
        /\ Stuck(Self) =>
               /\ \A n \in Sizes \ {0} :
                      /\ FailsAgain(Self, read(Self, n))
                      /\ FailsAgain(Self, read1(Self, n))
                      /\ FailsAgain(Self, readline(Self, n))
                      /\ FailsAgain(Self, readlines(Self, n))
               /\ \A n \in 1 .. MaxSize : FailsAgain(Self, readinto(Self, n))
               /\ FailsAgain(Self, peek(Self))
               /\ \A n \in Sizes \ {0} :
                      /\ FailsAgain(Self, read(read(Self, n).s, n))
                      /\ FailsAgain(Self, peek(read1(Self, n).s))

\* A read failed on a source cut off after some plaintext, which was read
\* before; the next read fails again.
C18_Witness ==
    /\ Reading /\ err = TruncatedError /\ ~seeked
    /\ pos > 0 /\ got = src.plain
    /\ read(Self, 1).err = TruncatedError
    /\ peek(read(Self, 1).s).err = TruncatedError

\* ---------------------------------------------------------------------
\* C19

\* The calls other than write, writelines and close, made on the handle.
OtherCalls ==
    ReadCalls \cup {fileno(Self), seekable(Self), readable(Self),
                    writable(Self)}

\* C19 (write path): on a handle in the writing mode the position, which is
\* what tell() returns, is the number of bytes the writes that returned have
\* taken; write(data) calls the endpoint's write once, with what the
\* compressor gave for data, returns len(data) and adds it to the position; a
\* write the endpoint fails leaves the position; no call but close leaves the
\* writing mode or writes the flush output; the first close writes the flush
\* output, once, after all that the writes wrote and before it closes the
\* endpoint, and no later close writes it again; and, the endpoint failing no
\* call, what the endpoint holds then is what it held at the start and one
\* stream of all that was written.
C19_WritePath ==
    /\ nflush <= 1
    /\ mode = MODE_WRITE =>
        /\ nflush = 0 /\ compressor # None
        /\ pos = Len(written)
        /\ tell(Self).err = NoError /\ tell(Self).retn = Len(written)
        /\ ~faulted =>
               ep.data \o Flush(Get(compressor)) = src.data \o Segment(written)
        /\ \A data \in Datas :
               /\ \A r \in {write(Self, data, FALSE)} :
                      /\ r.err = NoError /\ r.retn = Len(data)
                      /\ r.s.pos = pos + Len(data)
                      /\ tell(r.s).retn = Len(written) + Len(data)
                      /\ r.s.calls = <<"write">>
                      /\ r.s.ep.data =
                             ep.data \o Compress(Get(compressor), data).out
                      /\ r.s.mode = MODE_WRITE /\ r.s.nflush = 0
                      /\ ~faulted =>
                             r.s.ep.data \o Flush(Get(r.s.compressor)) =
                                 src.data \o Segment(written \o data)
               /\ \A r \in {write(Self, data, TRUE)} :
                      /\ r.err = EndpointError /\ r.s.pos = pos
                      /\ r.s.ep.data = ep.data
                      /\ r.s.mode = MODE_WRITE /\ r.s.nflush = 0
        /\ \A seq \in Lines : \A r \in {writelines(Self, seq, FALSE)} :
               /\ r.err = NoError /\ r.s.pos = pos + Len(Join(seq))
               /\ Len(r.s.calls) = Len(seq)
               /\ r.s.mode = MODE_WRITE /\ r.s.nflush = 0
               /\ ~faulted =>
                      r.s.ep.data \o Flush(Get(r.s.compressor)) =
                          src.data \o Segment(written \o Join(seq))
        /\ \A r \in OtherCalls :
               /\ r.s.mode = MODE_WRITE /\ r.s.nflush = 0
               /\ r.s.ep.data = ep.data /\ r.s.pos = pos
               /\ r.s.compressor = compressor
        /\ \A cfail \in BOOLEAN :
               /\ \A r \in {close(Self, FALSE, cfail)} :
                      /\ r.s.mode = MODE_CLOSED /\ r.s.nflush = 1
                      /\ r.s.calls =
                             <<"write">> \o
                             (IF closefp THEN <<"close">> ELSE <<>>)
                      /\ r.s.ep.data = ep.data \o Flush(Get(compressor))
                      /\ ~faulted => r.s.ep.data = src.data \o Segment(written)
                      /\ \A r2 \in {close([r.s EXCEPT !.calls = <<>>],
                                          FALSE, FALSE)} :
                             /\ r2.s.nflush = 1 /\ r2.s.calls = <<>>
                             /\ r2.s.ep.data = r.s.ep.data
               /\ \A r \in {close(Self, TRUE, cfail)} :
                      /\ r.s.mode = MODE_CLOSED /\ r.s.nflush = 1
                      /\ r.s.ep.data = ep.data
                      /\ close(r.s, FALSE, FALSE).s.nflush = 1
                      /\ close(r.s, FALSE, FALSE).s.ep.data = ep.data

\* Two writes were made, the first of them handed to the endpoint by the
\* second, and the close is still to come.
C19_Witness ==
    /\ mode = MODE_WRITE /\ ~faulted /\ Len(written) = MaxWrite
    /\ Len(ep.data) > Len(src.data) + 1
    /\ Len(Flush(Get(compressor))) = 2
    /\ close(Self, FALSE, FALSE).s.ep.data = src.data \o Segment(written)

\* ---------------------------------------------------------------------
\* C20

\* The position seek(offset, whence) asks for, on a handle that knows the
\* total size.
Target(offset, whence) ==
    IF whence = 0 THEN offset
    ELSE IF whence = 1 THEN pos + offset
    ELSE size + offset

\* C20 (end of file): in the reading modes the position is not below 0, not
\* above the plaintext of the source and, the total size known, not above it,
\* whatever was passed to seek; in the mode of the end of file the total size
\* is known and is the plaintext's length, the position is the total size and
\* the buffer is empty; there no read, read1, readinto, readline, readlines,
\* peek, tell, fileno, readable, writable or seekable leaves the mode or the
\* position, a seek leaves them unless it asks for a position below the
\* position, and then it goes back to the reading mode at the position asked
\* for or at 0; and close closes.
C20_EofState ==
    /\ Reading =>
        /\ 0 <= pos /\ pos <= PlainLen
        /\ size >= 0 => pos <= size
        /\ \A x \in Seeks : \A r \in {seek(Self, x[1], x[2])} :
               /\ 0 <= r.s.pos /\ r.s.pos <= PlainLen
               /\ r.s.size >= 0 => r.s.pos <= r.s.size
               /\ r.s.mode = MODE_READ_EOF =>
                      /\ r.s.size >= 0 /\ r.s.pos = r.s.size
                      /\ ~Truthy(r.s.buffer)
    /\ mode = MODE_READ_EOF =>
        /\ size >= 0 /\ size = PlainLen /\ ~src.cut
        /\ pos = size
        /\ ~Truthy(buffer)
        /\ \A r \in (OtherCalls \ {seek(Self, x[1], x[2]) : x \in Seeks}) :
               r.s.mode = MODE_READ_EOF /\ r.s.pos = pos /\ r.s.size = size
        /\ \A x \in {y \in Seeks : y[2] # 3} :
           \A r \in {seek(Self, x[1], x[2])} :
               IF Target(x[1], x[2]) < pos /\ ep.seekable
               THEN /\ r.err = NoError /\ r.s.mode = MODE_READ
                    /\ r.s.pos = Max(Target(x[1], x[2]), 0)
                    /\ r.retn = r.s.pos /\ r.s.size = size
               ELSE /\ r.s.mode = MODE_READ_EOF /\ r.s.pos = pos
                    /\ r.s.size = size
                    /\ ep.seekable => r.err = NoError /\ r.retn = pos
        /\ \A r \in {seek(Self, 0, 3)} :
               r.err # NoError /\ r.s.mode = MODE_READ_EOF /\ r.s.pos = pos
        /\ \A wfail, cfail \in BOOLEAN :
               close(Self, wfail, cfail).s.mode = MODE_CLOSED

\* At the end of a source of some plaintext, reached by a seek beyond its
\* end; a seek below the position goes back to the reading mode.
C20_Witness ==
    /\ mode = MODE_READ_EOF /\ seeked /\ ep.seekable
    /\ pos = PlainLen /\ pos = MaxSegLen
    /\ seek(Self, PlainLen + 1, 0).s.pos = pos
    /\ seek(Self, -1, 1).s.mode = MODE_READ
    /\ seek(Self, -1, 1).s.pos = pos - 1
    /\ seek(Self, -1, 0).s.pos = 0

\* ---------------------------------------------------------------------
\* C11

\* The orders the threads' calls can be made in, one after the other.
Orders ==
    {p \in [1..NThreads -> Threads] :
        \A i, j \in 1..NThreads : p[i] = p[j] => i = j}

\* The calls made one after the other in the order given, from handle s:
\* the handle after them and what each of them gave.
RECURSIVE Serial(_, _, _)
Serial(order, s, res) ==
    IF order = <<>> THEN [s |-> s, res |-> res]
    ELSE The({
         Serial(Tail(order), [r.s EXCEPT !.calls = <<>>, !.nsize = 0],
                [res EXCEPT ![Head(order)] = Result(r)]) :
         r \in {Apply(th[Head(order)].op, s)}})

AllDone == \A t \in Threads : th[t].pc = "done"

\* C11 (atomic under the lock): when every thread has made its call, the
\* handle and what each call gave are what the calls give made one after the
\* other in some order; and no call finds the endpoint reference cleared
\* after it found the handle not closed.
C11_AtomicUnderLock ==
    /\ \A t \in Threads : th[t].res.err # AttributeError
    /\ AllDone =>
           \E p \in Orders :
               \A x \in {Serial(p, first, [t \in Threads |-> Returned])} :
                   /\ x.res = [t \in Threads |-> th[t].res]
                   /\ x.s = Self

\* The same of the threads whose calls all take the lock.
C11_LockedCallsAtomic ==
    (AllDone /\ \A t \in Threads : th[t].op.name \notin Unlocked) =>
        \E p \in Orders :
            \A x \in {Serial(p, first, [t \in Threads |-> Returned])} :
                /\ x.res = [t \in Threads |-> th[t].res]
                /\ x.s = Self

\* ---------------------------------------------------------------------
\* C12

\* No thread is in a call.
NoCall == \A t \in Threads : th[t].pc \in {"idle", "done"}

\* The thread is in a method that takes the lock, past the taking of it.
Inside(t) ==
    th[t].pc \in {"mixin", "body", "unlock", "close_try", "close_fp",
                  "close_mode"}

\* C12 (no deadlock on the re-entrant lock): the lock is held by the one
\* thread that is inside a method that takes it, and is free when no thread
\* is in a call; a thread that holds the lock in readinto, readline,
\* readlines or writelines and comes to the read, peek or write called there
\* can take the lock again; and every thread that calls a method, whatever
\* the other threads call, returns from it in the end.
C12_NoDeadlock ==
    /\ [](NoCall => lock = Free)
    /\ [](\A t \in Threads :
              /\ Inside(t) <=> lock.owner = t
              /\ th[t].pc = "mixin" => CanAcquire(lock, t) /\ lock.depth = 1
              /\ th[t].pc = "unlock" => lock.depth = 1
              /\ (th[t].pc = "body" /\ th[t].op.name \in Composite)
                     => lock.depth = 2)
    /\ \A t \in Threads : (th[t].pc # "done") ~> (th[t].pc = "done")

\* A thread in readline holds the lock twice, and another, which called a
\* method of the same kind, waits for it.
C12_Witness ==
    \E t, u \in Threads :
        /\ th[t].pc = "body" /\ th[t].op.name = "readline"
        /\ lock = [owner |-> t, depth |-> 2]
        /\ th[u].pc = "lock" /\ th[u].op.name \in Composite
        /\ ~CanAcquire(lock, u)

====
